---- MODULE Spec2Model ----
(***************************************************************************)
(* Model of the suggestion extraction of the direct PR review script       *)
(* (src/unnamed/part_002): findFirstDifferentLineIndex, findSmallestDiff,  *)
(* extractMinimalChanges and the selection chain of formatComment that     *)
(* composes them into a GitHub suggestion block; and of the review scripts *)
(* that drive the GitHub API: reviewPullRequest (src/pr-review-tool.js),   *)
(* reviewPRWithMCP (src/unnamed/part_000), addDirectPRComments             *)
(* (src/unnamed/part_002) and the Octokit script (src/unnamed/part_003).   *)
(*                                                                         *)
(* A string is a sequence of one-character strings, so that trim, split,   *)
(* join and includes are computed rather than assumed.  An array is a      *)
(* sequence; the code's 0-based indices are kept and converted at access.  *)
(***************************************************************************)
EXTENDS Integers, Sequences, FiniteSets, TLC

VARIABLES
    lineContent,      \* formatComment argument: the text the pattern matched
    lineSuggestion,   \* lineSuggestions[key]: the replacement text of one key
    key,              \* the suggestion key being rendered
    numKeys,          \* Object.keys(lineSuggestions).length
    originalLines,    \* array of lines
    suggestedLines,   \* array of lines
    pc,               \* position in formatComment / "idle" for direct calls
    targetLineIndex,  \* formatComment local
    diffLines,        \* formatComment local: result of findSmallestDiff
    firstDiffIndex,   \* formatComment local: result of the direct call
    steps,            \* the steps of the chain evaluated so far, in order
    emittedBy,        \* the steps that appended a suggestion block
    emittedLines,     \* the array joined into the suggestion block
    emitted,          \* the text placed inside the suggestion block
    call,             \* SpecDiff: the function called last
    ret,              \* SpecDiff: what that call computed and returned
    returned,         \* SpecDiff: what each function returned when last called
    recalled,         \* SpecDiff: some function was called a second time
    program,          \* the review script that is running
    pr,               \* what the get-PR call resolves to
    files,            \* what the get-files call resolves to
    diff,             \* what the get-diff call resolves to, as its lines
    stage,            \* position of the review script, or how it ended
    apiCalls,         \* the API requests issued so far, in order
    comments,         \* the script's comments array
    cursor            \* index of the comment the add loop is at

vars == <<lineContent, lineSuggestion, key, numKeys, originalLines,
          suggestedLines, pc, targetLineIndex, diffLines, firstDiffIndex,
          steps, emittedBy, emittedLines, emitted, call, ret, returned,
          recalled, program, pr, files, diff, stage, apiCalls, comments,
          cursor>>

\* the state of the review scripts
reviewVars == <<program, pr, files, diff, stage, apiCalls, comments, cursor>>

\* no review script is running
ReviewIdle ==
    /\ program = "none"
    /\ pr = "none"
    /\ files = <<>>
    /\ diff = <<>>
    /\ stage = "idle"
    /\ apiCalls = <<>>
    /\ comments = <<>>
    /\ cursor = 0

----------------------------------------------------------------------------
(* Bounds of the model *)

\* longest array given to the three diff functions directly
MaxLen == 5
\* most lines of a text given to formatComment
MaxLines == 4
\* most keys of a lineSuggestions object
MaxKeys == 2

(* Program constants *)

\* const maxLines = 3 in findSmallestDiff
maxLines == 3
\* .slice(0, 3) of the last resort, diffLines.length <= 3 of the second step
SliceCap == 3
\* Math.min(1, ...) context lines of the multi-suggestion branch
ContextCap == 1
\* return -1: "arrays are identical", and "no line contains the key"
NONE == -1

----------------------------------------------------------------------------
(* JavaScript primitives *)

NL == "\n"
WhiteSpace == {" ", NL}

\* what reading past the end of an array yields
Undefined == <<"undefined">>

Min(a, b) == IF a < b THEN a ELSE b
Max(a, b) == IF a > b THEN a ELSE b

\* arr[i], i counted from 0
At(arr, i) == IF i >= 0 /\ i < Len(arr) THEN arr[i + 1] ELSE Undefined

\* a relative index of Array.prototype.slice
Rel(i, n) == IF i < 0 THEN Max(n + i, 0) ELSE Min(i, n)

\* arr.slice(from, to)
Slice(arr, from, to) ==
    LET f == Rel(from, Len(arr))
        t == Rel(to, Len(arr))
    IN  IF f >= t THEN <<>> ELSE SubSeq(arr, f + 1, t)

RECURSIVE Join(_, _)
\* arr.join(sep) for an array of strings and a one-character separator
Join(arr, sep) ==
    IF Len(arr) = 0 THEN <<>>
    ELSE IF Len(arr) = 1 THEN arr[1]
    ELSE arr[1] \o <<sep>> \o Join(Tail(arr), sep)

RECURSIVE SplitFrom(_, _, _)
SplitFrom(text, sep, cur) ==
    IF Len(text) = 0 THEN <<cur>>
    ELSE IF Head(text) = sep THEN <<cur>> \o SplitFrom(Tail(text), sep, <<>>)
    ELSE SplitFrom(Tail(text), sep, Append(cur, Head(text)))

\* text.split(sep): always at least one piece
Split(text, sep) == SplitFrom(text, sep, <<>>)

RECURSIVE TrimStart(_)
TrimStart(text) ==
    IF Len(text) > 0 /\ Head(text) \in WhiteSpace THEN TrimStart(Tail(text))
    ELSE text

RECURSIVE TrimEnd(_)
TrimEnd(text) ==
    IF Len(text) > 0 /\ text[Len(text)] \in WhiteSpace
    THEN TrimEnd(SubSeq(text, 1, Len(text) - 1))
    ELSE text

\* text.trim()
Trim(text) == TrimEnd(TrimStart(text))

\* line.includes(k)
Includes(line, k) ==
    \E i \in 0..(Len(line) - Len(k)) : SubSeq(line, i + 1, i + Len(k)) = k

----------------------------------------------------------------------------
(* findFirstDifferentLineIndex *)

RECURSIVE FirstDiffLoop(_, _, _)
\* the for loop from i on, and what follows it
FirstDiffLoop(o, s, i) ==
    LET minLength == Min(Len(o), Len(s))
    IN  IF i < minLength
        THEN IF o[i + 1] # s[i + 1] THEN i ELSE FirstDiffLoop(o, s, i + 1)
        ELSE IF Len(o) # Len(s) THEN minLength ELSE NONE

\* mutant: the scan starts at the second line
FirstDiffSkipsLineZero(o, s) == FirstDiffLoop(o, s, 1)

\* mutant: the lengths are not compared after the scan
FirstDiffNoLengthCheck(o, s) ==
    LET i == FirstDiffLoop(o, s, 0)
    IN  IF i >= Min(Len(o), Len(s)) THEN NONE ELSE i

\* mutant: a prefix is reported at the length of the original
FirstDiffReturnsOriginalLength(o, s) ==
    LET i == FirstDiffLoop(o, s, 0)
    IN  IF i = Min(Len(o), Len(s)) THEN Len(o) ELSE i

\* mutant: a prefix is reported at the length of the suggestion
FirstDiffReturnsSuggestedLength(o, s) ==
    LET i == FirstDiffLoop(o, s, 0)
    IN  IF i = Min(Len(o), Len(s)) THEN Len(s) ELSE i

findFirstDifferentLineIndex(o, s) == FirstDiffLoop(o, s, 0)

----------------------------------------------------------------------------
(* findSmallestDiff *)

\* mutant: the span runs on over matching lines
ExtendsDiffOverMatches(o, s, e) ==
    /\ e + 1 < Len(o)
    /\ e + 1 < Len(s)

\* the condition under which the while loop advances endDiffIndex
ExtendsDiff(o, s, e) ==
    /\ e + 1 < Len(o)
    /\ e + 1 < Len(s)
    /\ o[e + 2] # s[e + 2]

RECURSIVE EndDiffLoop(_, _, _)
\* the while loop from endDiffIndex = e on
EndDiffLoop(o, s, e) ==
    IF e < Min(Len(o), Len(s)) - 1
    THEN IF ExtendsDiff(o, s, e) THEN EndDiffLoop(o, s, e + 1) ELSE e
    ELSE e

\* mutant: the slice leaves out the line at endDiffIndex
SmallestDiffResultExclusive(s, first, end) ==
    LET diffLength == end - first + 1
    IN  IF diffLength <= maxLines
        THEN Slice(s, first, end)
        ELSE <<At(s, first)>>

\* mutant: a span that is too long is cut to its first three lines
SmallestDiffResultCutToThree(s, first, end) ==
    LET diffLength == end - first + 1
    IN  IF diffLength <= maxLines
        THEN Slice(s, first, end + 1)
        ELSE Slice(s, first, first + maxLines)

\* mutant: the span is returned whole however long it is
SmallestDiffResultUncapped(s, first, end) == Slice(s, first, end + 1)

\* mutant: only the first changed line is ever returned
SmallestDiffResultAlwaysFirstLine(s, first, end) == <<At(s, first)>>

\* mutant: the line before the first difference is returned as well
SmallestDiffResultWithContext(s, first, end) ==
    LET diffLength == end - first + 1
    IN  IF diffLength <= maxLines
        THEN Slice(s, Max(first - 1, 0), end + 1)
        ELSE <<At(s, first)>>

\* the return statement, given the two indices
SmallestDiffResult(s, first, end) ==
    LET diffLength == end - first + 1
    IN  IF diffLength <= maxLines
        THEN Slice(s, first, end + 1)
        ELSE <<At(s, first)>>

\* mutant: the lines are taken from the original array
SmallestDiffRunFromOriginal(o, s) ==
    LET first == findFirstDifferentLineIndex(o, s)
    IN  IF first = NONE
        THEN [firstDiffIndex |-> NONE, endDiffIndex |-> NONE,
              diffLength |-> 0, lines |-> <<>>]
        ELSE LET end == EndDiffLoop(o, s, first)
             IN  [firstDiffIndex |-> first, endDiffIndex |-> end,
                  diffLength |-> end - first + 1,
                  lines |-> SmallestDiffResult(o, first, end)]

\* mutant: endDiffIndex starts one line after the first difference
SmallestDiffRunEndStartsLate(o, s) ==
    LET first == findFirstDifferentLineIndex(o, s)
    IN  IF first = NONE
        THEN [firstDiffIndex |-> NONE, endDiffIndex |-> NONE,
              diffLength |-> 0, lines |-> <<>>]
        ELSE LET end == EndDiffLoop(o, s, first + 1)
             IN  [firstDiffIndex |-> first, endDiffIndex |-> end,
                  diffLength |-> end - first + 1,
                  lines |-> SmallestDiffResult(s, first, end)]

\* mutant: identical arrays return the whole suggestion
SmallestDiffRunAllWhenSame(o, s) ==
    LET first == findFirstDifferentLineIndex(o, s)
    IN  IF first = NONE
        THEN [firstDiffIndex |-> NONE, endDiffIndex |-> NONE,
              diffLength |-> 0, lines |-> s]
        ELSE LET end == EndDiffLoop(o, s, first)
             IN  [firstDiffIndex |-> first, endDiffIndex |-> end,
                  diffLength |-> end - first + 1,
                  lines |-> SmallestDiffResult(s, first, end)]

\* the locals and the result of one call
SmallestDiffRun(o, s) ==
    LET first == findFirstDifferentLineIndex(o, s)
    IN  IF first = NONE
        THEN [firstDiffIndex |-> NONE, endDiffIndex |-> NONE,
              diffLength |-> 0, lines |-> <<>>]
        ELSE LET end == EndDiffLoop(o, s, first)
             IN  [firstDiffIndex |-> first, endDiffIndex |-> end,
                  diffLength |-> end - first + 1,
                  lines |-> SmallestDiffResult(s, first, end)]

findSmallestDiff(o, s) == SmallestDiffRun(o, s).lines

----------------------------------------------------------------------------
(* extractMinimalChanges *)

RECURSIVE PrefixLoop(_, _, _)
PrefixLoop(o, s, p) ==
    IF p < Min(Len(o), Len(s)) /\ o[p + 1] = s[p + 1]
    THEN PrefixLoop(o, s, p + 1)
    ELSE p

RECURSIVE SuffixLoopOverlapping(_, _, _, _)
\* mutant: the suffix scan is not stopped at the common prefix
SuffixLoopOverlapping(o, s, p, x) ==
    IF x < Min(Len(o), Len(s)) /\ o[Len(o) - x] = s[Len(s) - x]
    THEN SuffixLoopOverlapping(o, s, p, x + 1)
    ELSE x

RECURSIVE SuffixLoop(_, _, _, _)
SuffixLoop(o, s, p, x) ==
    IF x < Min(Len(o), Len(s)) - p /\ o[Len(o) - x] = s[Len(s) - x]
    THEN SuffixLoop(o, s, p, x + 1)
    ELSE x

\* mutant: only the suggested side of the changed core is looked at
NoChangesSuggestedOnly(originalChanged, suggestedChanged) ==
    Len(suggestedChanged) = 0

\* the condition under which the whole suggestion is returned
NoChanges(originalChanged, suggestedChanged) ==
    Len(originalChanged) = 0 /\ Len(suggestedChanged) = 0

\* mutant: the context line after the change is always taken
FinalSuggestedAlwaysAfter(s, prefixLength, suffixLength) ==
    LET startContext == Max(0, prefixLength - 1)
        endContextSuggested == Min(Len(s), Len(s) - suffixLength + 2)
    IN  Slice(s, startContext, endContextSuggested)

\* mutant: no context line before the change
FinalSuggestedNoBefore(s, prefixLength, suffixLength) ==
    LET startContext == prefixLength
        endContextSuggested == Min(Len(s), Len(s) - suffixLength + 1)
    IN  Slice(s, startContext, endContextSuggested)

\* the changed lines of suggested with one line of context on each side
FinalSuggested(s, prefixLength, suffixLength) ==
    LET startContext == Max(0, prefixLength - 1)
        endContextSuggested == Min(Len(s), Len(s) - suffixLength + 1)
    IN  Slice(s, startContext, endContextSuggested)

\* the locals and the result of one call
MinimalChangesRun(o, s) ==
    LET prefixLength == PrefixLoop(o, s, 0)
        suffixLength == SuffixLoop(o, s, prefixLength, 0)
        originalChanged == Slice(o, prefixLength, Len(o) - suffixLength)
        suggestedChanged == Slice(s, prefixLength, Len(s) - suffixLength)
        finalSuggested == FinalSuggested(s, prefixLength, suffixLength)
        whole == NoChanges(originalChanged, suggestedChanged)
    IN  [prefixLength |-> prefixLength, suffixLength |-> suffixLength,
         originalChanged |-> originalChanged,
         suggestedChanged |-> suggestedChanged,
         whole |-> whole,
         lines |-> IF whole THEN s ELSE finalSuggested,
         text |-> IF whole THEN Join(s, NL) ELSE Join(finalSuggested, NL)]

extractMinimalChanges(o, s) == MinimalChangesRun(o, s).text

----------------------------------------------------------------------------
(* formatComment: the suggestion block of one key *)

RECURSIVE TargetLoop(_, _, _)
\* the for loop that looks for the first line containing the key
TargetLoop(o, k, i) ==
    IF i < Len(o)
    THEN IF Includes(o[i + 1], k) THEN i ELSE TargetLoop(o, k, i + 1)
    ELSE NONE

RECURSIVE TargetLoopLast(_, _, _)
TargetLoopLast(o, k, i) ==
    IF i >= 0
    THEN IF Includes(o[i + 1], k) THEN i ELSE TargetLoopLast(o, k, i - 1)
    ELSE NONE

\* mutant: the loop has no break, the last line containing the key wins
FindLastTargetLine(o, k) == TargetLoopLast(o, k, Len(o) - 1)

FindTargetLine(o, k) == TargetLoop(o, k, 0)

\* the branch taken: suggestionKeys.length > 1
IsMulti(n) == n > 1

\* the condition under which the first step renders its block
KeywordUsable(n, t, s) ==
    IF IsMulti(n) THEN t >= 0 ELSE t >= 0 /\ t < Len(s)

\* the array the first step renders
KeywordLines(n, t, o, s) ==
    IF IsMulti(n)
    THEN LET contextLinesBefore == Min(ContextCap, t)
             contextLinesAfter == Min(ContextCap, Len(o) - t - 1)
             startLine == t - contextLinesBefore
             endLine == t + contextLinesAfter
         IN  Slice(s, startLine, endLine + 1)
    ELSE <<At(s, t)>>

\* mutant: an empty diff is rendered
DiffUsableWhenEmpty(d) == Len(d) <= SliceCap

\* mutant: a one-line diff is not rendered
DiffUsableFromTwoLines(d) == Len(d) > 1 /\ Len(d) <= SliceCap

\* the condition under which the second step renders diffLines
DiffUsable(d) == Len(d) > 0 /\ Len(d) <= SliceCap

\* the condition under which the third step renders one line
FirstDiffUsable(i, s) == i >= 0 /\ i < Len(s)

\* mutant: the last resort is not cut
LimitedLinesUncut(text) == Split(text, NL)

\* minimalSuggestion.split('\n').slice(0, 3)
LimitedLines(text) == Slice(Split(text, NL), 0, SliceCap)

Emit(step, lines) ==
    /\ emittedLines' = lines
    /\ emitted' = Join(lines, NL)
    /\ emittedBy' = Append(emittedBy, step)
    /\ pc' = "done"

\* if (lineSuggestions && lineContent), trim().split('\n') of both texts
EnterSuggestions ==
    /\ pc = "call"
    /\ IF Len(lineContent) > 0
       THEN /\ originalLines' = Split(Trim(lineContent), NL)
            /\ suggestedLines' = Split(Trim(lineSuggestion), NL)
            /\ pc' = "keyword"
       ELSE /\ pc' = "skipped"
            /\ UNCHANGED <<originalLines, suggestedLines>>
    /\ UNCHANGED reviewVars
    /\ UNCHANGED <<lineContent, lineSuggestion, key, numKeys, targetLineIndex,
                   diffLines, firstDiffIndex, steps, emittedBy, emittedLines,
                   emitted, call, ret, returned, recalled>>

\* step 1: the line containing the key
KeywordStep ==
    /\ pc = "keyword"
    /\ LET t == FindTargetLine(originalLines, key)
       IN  /\ targetLineIndex' = t
           /\ steps' = Append(steps, "keyword")
           /\ IF KeywordUsable(numKeys, t, suggestedLines)
              THEN Emit("keyword",
                        KeywordLines(numKeys, t, originalLines, suggestedLines))
              ELSE /\ pc' = "smallestDiff"
                   /\ UNCHANGED <<emittedBy, emittedLines, emitted>>
    /\ UNCHANGED reviewVars
    /\ UNCHANGED <<lineContent, lineSuggestion, key, numKeys, originalLines,
                   suggestedLines, diffLines, firstDiffIndex, call, ret,
                   returned, recalled>>

\* step 2: findSmallestDiff
SmallestDiffStep ==
    /\ pc = "smallestDiff"
    /\ LET d == findSmallestDiff(originalLines, suggestedLines)
       IN  /\ diffLines' = d
           /\ steps' = Append(steps, "smallestDiff")
           /\ IF DiffUsable(d)
              THEN Emit("smallestDiff", d)
              ELSE /\ pc' = "firstDiff"
                   /\ UNCHANGED <<emittedBy, emittedLines, emitted>>
    /\ UNCHANGED reviewVars
    /\ UNCHANGED <<lineContent, lineSuggestion, key, numKeys, originalLines,
                   suggestedLines, targetLineIndex, firstDiffIndex, call, ret,
                   returned, recalled>>

\* step 3: the first different line
FirstDiffStep ==
    /\ pc = "firstDiff"
    /\ LET i == findFirstDifferentLineIndex(originalLines, suggestedLines)
       IN  /\ firstDiffIndex' = i
           /\ steps' = Append(steps, "firstDiff")
           /\ IF FirstDiffUsable(i, suggestedLines)
              THEN Emit("firstDiff", <<At(suggestedLines, i)>>)
              ELSE /\ pc' = "minimal"
                   /\ UNCHANGED <<emittedBy, emittedLines, emitted>>
    /\ UNCHANGED reviewVars
    /\ UNCHANGED <<lineContent, lineSuggestion, key, numKeys, originalLines,
                   suggestedLines, targetLineIndex, diffLines, call, ret,
                   returned, recalled>>

\* step 4: extractMinimalChanges, cut to three lines
MinimalStep ==
    /\ pc = "minimal"
    /\ steps' = Append(steps, "minimal")
    /\ Emit("minimal",
            LimitedLines(extractMinimalChanges(originalLines, suggestedLines)))
    /\ UNCHANGED reviewVars
    /\ UNCHANGED <<lineContent, lineSuggestion, key, numKeys, originalLines,
                   suggestedLines, targetLineIndex, diffLines, firstDiffIndex,
                   call, ret,
                   returned, recalled>>

----------------------------------------------------------------------------
(* Inputs *)

BoundedSeq(S, n) == UNION {[1..m -> S] : m \in 0..n}

\* lines given to the diff functions directly
DiffLineValues == {<<"a">>, <<"b">>}

\* lines of the texts given to formatComment; <<"a", "k">> contains the key
TextLineValues == {<<"a">>, <<"a", "k">>, <<" ">>}
Texts == {Join(ls, NL) : ls \in BoundedSeq(TextLineValues, MaxLines)}
Keys == {<<"k">>}

DiffFunctions ==
    {"findFirstDifferentLineIndex", "findSmallestDiff", "extractMinimalChanges"}

NoRet == [none |-> TRUE]

Init ==
    /\ lineContent \in Texts
    /\ lineSuggestion \in Texts
    /\ key \in Keys
    /\ numKeys \in 1..MaxKeys
    /\ originalLines = <<>>
    /\ suggestedLines = <<>>
    /\ pc = "call"
    /\ targetLineIndex = NONE
    /\ diffLines = <<>>
    /\ firstDiffIndex = NONE
    /\ steps = <<>>
    /\ emittedBy = <<>>
    /\ emittedLines = <<>>
    /\ emitted = <<>>
    /\ call = "none"
    /\ ret = NoRet
    /\ returned = [f \in DiffFunctions |-> NoRet]
    /\ recalled = FALSE
    /\ ReviewIdle

Next ==
    \/ EnterSuggestions
    \/ KeywordStep
    \/ SmallestDiffStep
    \/ FirstDiffStep
    \/ MinimalStep

Spec == Init /\ [][Next]_vars

----------------------------------------------------------------------------
(* Direct calls of the three functions on arbitrary arrays *)

InitDiff ==
    /\ originalLines \in BoundedSeq(DiffLineValues, MaxLen)
    /\ suggestedLines \in BoundedSeq(DiffLineValues, MaxLen)
    /\ lineContent = <<>>
    /\ lineSuggestion = <<>>
    /\ key = <<>>
    /\ numKeys = 0
    /\ pc = "idle"
    /\ targetLineIndex = NONE
    /\ diffLines = <<>>
    /\ firstDiffIndex = NONE
    /\ steps = <<>>
    /\ emittedBy = <<>>
    /\ emittedLines = <<>>
    /\ emitted = <<>>
    /\ call = "none"
    /\ ret = NoRet
    /\ returned = [f \in DiffFunctions |-> NoRet]
    /\ recalled = FALSE
    /\ ReviewIdle

DiffFrame ==
    /\ UNCHANGED reviewVars
    /\ UNCHANGED <<lineContent, lineSuggestion, key, numKeys, originalLines,
                   suggestedLines, pc, targetLineIndex, diffLines,
                   firstDiffIndex, steps, emittedBy, emittedLines, emitted>>

\* the history of the calls: the value kept for a later call to compare with
Returns(fn, value) ==
    /\ call' = fn
    /\ ret' = value
    /\ returned' = [returned EXCEPT ![fn] = value]
    /\ recalled' = (recalled \/ returned[fn] # NoRet)

CallFindFirstDifferentLineIndex ==
    /\ pc = "idle"
    /\ Returns("findFirstDifferentLineIndex",
               [index |->
                  findFirstDifferentLineIndex(originalLines, suggestedLines)])
    /\ DiffFrame

\* mutant: the lines are taken out of suggestedLines with splice
CallFindSmallestDiffSplice ==
    /\ pc = "idle"
    /\ LET r == SmallestDiffRun(originalLines, suggestedLines)
       IN  /\ Returns("findSmallestDiff", r)
           /\ suggestedLines' =
                 IF r.firstDiffIndex = NONE THEN suggestedLines
                 ELSE Slice(suggestedLines, 0, r.firstDiffIndex)
                      \o Slice(suggestedLines,
                               r.firstDiffIndex + Len(r.lines),
                               Len(suggestedLines))
    /\ UNCHANGED reviewVars
    /\ UNCHANGED <<lineContent, lineSuggestion, key, numKeys, originalLines,
                   pc, targetLineIndex, diffLines, firstDiffIndex, steps,
                   emittedBy, emittedLines, emitted>>

CallFindSmallestDiff ==
    /\ pc = "idle"
    /\ Returns("findSmallestDiff",
               SmallestDiffRun(originalLines, suggestedLines))
    /\ DiffFrame

CallExtractMinimalChanges ==
    /\ pc = "idle"
    /\ Returns("extractMinimalChanges",
               MinimalChangesRun(originalLines, suggestedLines))
    /\ DiffFrame

NextDiff ==
    \/ CallFindFirstDifferentLineIndex
    \/ CallFindSmallestDiff
    \/ CallExtractMinimalChanges

SpecDiff == InitDiff /\ [][NextDiff]_vars

----------------------------------------------------------------------------
(* Properties of the selection chain (Spec) *)

\* some original line contains the key
HasKey ==
    \E i \in 1..Len(originalLines) : Includes(originalLines[i], key)

\* the 0-based index of the first original line containing the key
FirstKey ==
    CHOOSE t \in 0..(Len(originalLines) - 1) :
        /\ Includes(originalLines[t + 1], key)
        /\ \A j \in 0..(t - 1) : ~Includes(originalLines[j + 1], key)

\* the number of lines of the text inside the suggestion block
EmittedLineCount == Len(Split(emitted, NL))

AllSteps == <<"keyword", "smallestDiff", "firstDiff", "minimal">>

\* C1: once the chain has rendered the suggestion of a key, in the single-key
\* and in the multi-key branch alike, the rendered text has at most 3 lines.
C1_CapInvariant == pc = "done" => EmittedLineCount <= 3

\* C1 witness: the last resort rendered 3 lines of a suggestion of 4 lines
C1_Witness ==
    /\ pc = "done"
    /\ emittedBy = <<"minimal">>
    /\ Len(suggestedLines) > 3
    /\ EmittedLineCount = 3

\* C2: the chain renders at least one line for every key, whatever the two
\* texts are, in the single-key and in the multi-key branch.
C2_NeverEmpty == pc = "done" => Len(emittedBy) = 1 /\ Len(emittedLines) >= 1

\* C3 as claimed: whenever an original line contains the key, the chain
\* renders exactly the one line suggested[t], t the first such index, in
\* both branches.
C3_Original ==
    (pc = "done" /\ HasKey) => emittedLines = <<At(suggestedLines, FirstKey)>>

\* C3 amended: with t the first original line containing the key, the
\* single-key branch renders exactly suggested[t] when t < len(suggested) and
\* leaves the keyword step without output otherwise; the multi-key branch
\* renders suggested[max(t-1,0) .. min(t+1, len(original)-1)] cut to the
\* bounds of suggested (the target line and up to one line of context on
\* each side).
C3_KeywordLine ==
    (pc = "done" /\ HasKey) =>
        LET t == FirstKey
            lo == Max(t - 1, 0)
            hi == Min(Min(t + 1, Len(originalLines) - 1),
                      Len(suggestedLines) - 1)
            n == Max(hi - lo + 1, 0)
        IN  /\ targetLineIndex = t
            /\ IF numKeys > 1
               THEN /\ emittedBy = <<"keyword">>
                    /\ emittedLines = [j \in 1..n |-> suggestedLines[lo + j]]
               ELSE IF t < Len(suggestedLines)
               THEN /\ emittedBy = <<"keyword">>
                    /\ emittedLines = <<suggestedLines[t + 1]>>
               ELSE emittedBy # <<"keyword">>

\* C3 witness: the multi-key branch rendered the target line with a line of
\* context on each side
C3_Witness ==
    /\ pc = "done"
    /\ HasKey
    /\ numKeys > 1
    /\ emittedBy = <<"keyword">>
    /\ Len(emittedLines) = 3
    /\ emittedLines[2] = suggestedLines[FirstKey + 1]

\* C4 as claimed: when the two arrays are identical the span of
\* findSmallestDiff is empty and the chain renders no suggestion lines.
C4_Original ==
    (pc = "done" /\ originalLines = suggestedLines) =>
        /\ "smallestDiff" \in {steps[i] : i \in 1..Len(steps)}
              => diffLines = <<>>
        /\ emittedBy = <<>>
        /\ emittedLines = <<>>

\* C4 amended: when the two arrays are identical findSmallestDiff returns no
\* line, and the chain still renders a suggestion: the keyword step's when an
\* original line contains the key, and otherwise the last resort's, which is
\* the first min(3, len(suggested)) lines of suggested.
C4_IdenticalStillRendered ==
    (pc = "done" /\ originalLines = suggestedLines) =>
        IF HasKey
        THEN /\ steps = <<"keyword">>
             /\ emittedBy = <<"keyword">>
             /\ Len(emittedLines) >= 1
        ELSE /\ steps = AllSteps
             /\ diffLines = <<>>
             /\ firstDiffIndex = NONE
             /\ emittedBy = <<"minimal">>
             /\ emittedLines =
                    SubSeq(suggestedLines, 1, Min(3, Len(suggestedLines)))

\* C4 witness: identical arrays of more than 3 lines, none containing the
\* key, rendered by the last resort
C4_Witness ==
    /\ pc = "done"
    /\ originalLines = suggestedLines
    /\ Len(originalLines) > 3
    /\ ~HasKey
    /\ emittedBy = <<"minimal">>
    /\ Len(emittedLines) = 3

\* C5: the steps are evaluated in the order keyword, findSmallestDiff, first
\* different line, extractMinimalChanges; at most one of them renders, and
\* exactly one once the chain is through; a step is evaluated only if the
\* step before it had no renderable result.
C5_StrictFallback ==
    /\ steps = SubSeq(AllSteps, 1, Len(steps))
    /\ Len(emittedBy) <= 1
    /\ pc = "done" => /\ Len(emittedBy) = 1
                      /\ Len(steps) >= 1
                      /\ emittedBy[1] = steps[Len(steps)]
    /\ pc \in {"keyword", "smallestDiff", "firstDiff", "minimal"}
          => emittedBy = <<>>
    /\ Len(steps) >= 2 =>
          \/ ~HasKey
          \/ numKeys = 1 /\ FirstKey >= Len(suggestedLines)
    /\ Len(steps) >= 3 => ~(Len(diffLines) \in 1..3)
    /\ Len(steps) >= 4 =>
          \/ firstDiffIndex = NONE
          \/ firstDiffIndex >= Len(suggestedLines)

\* C5 witness: all four steps were evaluated and only the last one rendered
C5_Witness ==
    /\ pc = "done"
    /\ steps = AllSteps
    /\ emittedBy = <<"minimal">>

----------------------------------------------------------------------------
(* Properties of the diff functions called directly (SpecDiff) *)

ShorterLength == Min(Len(originalLines), Len(suggestedLines))

\* the 0-based indices below both lengths at which the two arrays differ
DifferingIndices ==
    {i \in 0..(ShorterLength - 1) : originalLines[i + 1] # suggestedLines[i + 1]}

\* same length and the same line at every index
SameContent ==
    /\ Len(originalLines) = Len(suggestedLines)
    /\ \A i \in 1..Len(originalLines) : originalLines[i] = suggestedLines[i]

\* one array is the other followed by at least one more line
ProperPrefix ==
    /\ Len(originalLines) # Len(suggestedLines)
    /\ DifferingIndices = {}

\* C6: when the arrays differ at an index below both lengths,
\* findFirstDifferentLineIndex returns the least such index.
C6_FirstDifference ==
    (call = "findFirstDifferentLineIndex" /\ DifferingIndices # {}) =>
        /\ ret.index \in DifferingIndices
        /\ \A j \in DifferingIndices : ret.index <= j

\* C6 witness: arrays of equal length that differ only at index 2
C6_Witness ==
    /\ call = "findFirstDifferentLineIndex"
    /\ Len(originalLines) = Len(suggestedLines)
    /\ DifferingIndices = {2}
    /\ ret.index = 2

\* C7: findFirstDifferentLineIndex returns NONE exactly when the arrays have
\* the same length and the same content, two empty arrays included.
C7_NoneIffIdentical ==
    call = "findFirstDifferentLineIndex" => (ret.index = NONE <=> SameContent)

\* C7 witness: NONE for two empty arrays
C7_Witness ==
    /\ call = "findFirstDifferentLineIndex"
    /\ originalLines = <<>>
    /\ suggestedLines = <<>>
    /\ ret.index = NONE

\* C8: when one array is a proper prefix of the other,
\* findFirstDifferentLineIndex returns the length of the shorter one.
C8_PrefixLength ==
    (call = "findFirstDifferentLineIndex" /\ ProperPrefix) =>
        ret.index = ShorterLength

\* C8 witness: suggested is a non-empty proper prefix of original
C8_Witness ==
    /\ call = "findFirstDifferentLineIndex"
    /\ ProperPrefix
    /\ 0 < Len(suggestedLines)
    /\ Len(suggestedLines) < Len(originalLines)
    /\ ret.index = Len(suggestedLines)

\* every index after start up to e lies below both lengths and differs
RunOfDifferences(start, e) ==
    /\ e >= start
    /\ \A i \in (start + 1)..e :
          /\ i < Len(originalLines)
          /\ i < Len(suggestedLines)
          /\ originalLines[i + 1] # suggestedLines[i + 1]

\* C9: the span of findSmallestDiff starts at the first difference and ends
\* at the largest index up to which every later index is below both lengths
\* and differs; a matching line ends it even if later lines differ again.
C9_ContiguousSpan ==
    (call = "findSmallestDiff" /\ ~SameContent) =>
        /\ ret.firstDiffIndex =
              (IF DifferingIndices # {}
               THEN CHOOSE i \in DifferingIndices :
                        \A j \in DifferingIndices : i <= j
               ELSE ShorterLength)
        /\ RunOfDifferences(ret.firstDiffIndex, ret.endDiffIndex)
        /\ \A e \in 0..(Len(originalLines) + Len(suggestedLines)) :
              RunOfDifferences(ret.firstDiffIndex, e) => e <= ret.endDiffIndex

\* C9 witness: a span of two lines, a matching line after it, and a later
\* line that differs again
C9_Witness ==
    /\ call = "findSmallestDiff"
    /\ ret.endDiffIndex = ret.firstDiffIndex + 1
    /\ ret.endDiffIndex + 1 < ShorterLength
    /\ \E j \in DifferingIndices : j > ret.endDiffIndex + 1

\* the lines of suggested at the indices start..end, all of them defined
SuggestedSpan(start, end) ==
    [j \in 1..(end - start + 1) |-> At(suggestedLines, start + j - 1)]

\* C10 as claimed: when the span has diffLength <= 3 lines, findSmallestDiff
\* returns the diffLength lines suggested[start..end].
C10_Original ==
    (call = "findSmallestDiff" /\ ~SameContent /\ ret.diffLength <= 3) =>
        /\ ret.diffLength = ret.endDiffIndex - ret.firstDiffIndex + 1
        /\ Len(ret.lines) = ret.diffLength
        /\ ret.lines = SuggestedSpan(ret.firstDiffIndex, ret.endDiffIndex)

\* C10 amended: when the span has diffLength <= 3 lines, findSmallestDiff
\* returns suggested[start..end] cut to the bounds of suggested: the
\* diffLength lines of the span when start < len(suggested), and no line
\* when start = len(suggested), which is the case of suggested being a
\* proper prefix of original (diffLength = 1).
C10_SpanWithinSuggested ==
    (call = "findSmallestDiff" /\ ~SameContent /\ ret.diffLength <= 3) =>
        /\ ret.diffLength = ret.endDiffIndex - ret.firstDiffIndex + 1
        /\ IF ret.firstDiffIndex < Len(suggestedLines)
           THEN /\ Len(ret.lines) = ret.diffLength
                /\ ret.lines =
                      SuggestedSpan(ret.firstDiffIndex, ret.endDiffIndex)
           ELSE /\ ret.lines = <<>>
                /\ ret.diffLength = 1
                /\ ret.firstDiffIndex = Len(suggestedLines)
                /\ ProperPrefix
                /\ Len(suggestedLines) < Len(originalLines)

\* C10 witness: a span of 3 lines after an unchanged first line, returned
\* whole
C10_Witness ==
    /\ call = "findSmallestDiff"
    /\ ret.firstDiffIndex = 1
    /\ ret.diffLength = 3
    /\ ret.lines = SubSeq(suggestedLines, 2, 4)


\* the least index at which the arrays differ below both lengths
LeastDiffering ==
    CHOOSE i \in DifferingIndices : \A j \in DifferingIndices : i <= j

\* the contiguous run of differences from the first one has more than 3 lines
LongSpan ==
    /\ DifferingIndices # {}
    /\ \A i \in LeastDiffering..(LeastDiffering + 3) : i \in DifferingIndices

\* C11: when the contiguous differing span has more than 3 lines,
\* findSmallestDiff returns exactly one line, the line of suggested at the
\* first difference, which is a defined line.
C11_LongSpanOneLine ==
    (call = "findSmallestDiff" /\ LongSpan) =>
        /\ ret.diffLength > 3
        /\ ret.firstDiffIndex = LeastDiffering
        /\ ret.firstDiffIndex < Len(suggestedLines)
        /\ Len(ret.lines) = 1
        /\ ret.lines = <<suggestedLines[LeastDiffering + 1]>>
        /\ ret.lines[1] # Undefined

\* C11 witness: four changed lines after an unchanged first line
C11_Witness ==
    /\ call = "findSmallestDiff"
    /\ LongSpan
    /\ LeastDiffering = 1
    /\ ret.diffLength = 4
    /\ Len(ret.lines) = 1


\* C12: whatever the two arrays are, the lines findSmallestDiff returns are
\* suggested[a..b) for some 0 <= a <= b <= len(suggested), in the same order.
C12_ContiguousSubsequence ==
    call = "findSmallestDiff" =>
        \E a \in 0..Len(suggestedLines) :
            \E b \in a..Len(suggestedLines) :
                /\ Len(ret.lines) = b - a
                /\ \A k \in 1..(b - a) : ret.lines[k] = suggestedLines[a + k]

\* C12 witness: two lines returned from the middle of suggested
C12_Witness ==
    /\ call = "findSmallestDiff"
    /\ Len(ret.lines) = 2
    /\ ret.firstDiffIndex > 0
    /\ ret.endDiffIndex + 1 < Len(suggestedLines)
    /\ ret.lines = SubSeq(suggestedLines, ret.firstDiffIndex + 1,
                          ret.endDiffIndex + 1)


\* C13 as claimed: whenever findSmallestDiff finds a difference, its span
\* [start, end), end being one past endDiffIndex, satisfies
\* 0 <= start <= end <= min(len(original), len(suggested)), also when one
\* array is a proper prefix of the other.
C13_Original ==
    (call = "findSmallestDiff" /\ ~SameContent) =>
        /\ 0 <= ret.firstDiffIndex
        /\ ret.firstDiffIndex <= ret.endDiffIndex + 1
        /\ ret.endDiffIndex + 1 <= ShorterLength

\* C13 amended: whenever findSmallestDiff finds a difference, its span
\* [start, end) satisfies 0 <= start < end; end <= min(len(original),
\* len(suggested)) when the arrays differ at an index below both lengths;
\* when one array is a proper prefix of the other the span is
\* [min, min + 1), one past the shorter length and within the longer one.
C13_SpanBounds ==
    (call = "findSmallestDiff" /\ ~SameContent) =>
        /\ 0 <= ret.firstDiffIndex
        /\ ret.firstDiffIndex < ret.endDiffIndex + 1
        /\ IF DifferingIndices # {}
           THEN ret.endDiffIndex + 1 <= ShorterLength
           ELSE /\ ProperPrefix
                /\ ret.firstDiffIndex = ShorterLength
                /\ ret.endDiffIndex + 1 = ShorterLength + 1
                /\ ret.endDiffIndex + 1
                      <= Max(Len(originalLines), Len(suggestedLines))

\* C13 witness: a span that ends exactly at the shorter length
C13_Witness ==
    /\ call = "findSmallestDiff"
    /\ DifferingIndices # {}
    /\ Len(originalLines) # Len(suggestedLines)
    /\ ret.firstDiffIndex > 0
    /\ ret.endDiffIndex + 1 = ShorterLength


\* original is suggested without its last lines
OriginalIsProperPrefix ==
    /\ Len(originalLines) < Len(suggestedLines)
    /\ \A i \in 1..Len(originalLines) : originalLines[i] = suggestedLines[i]

\* C14: when original is a proper prefix of suggested, the empty original
\* included, findFirstDifferentLineIndex returns len(original) and
\* findSmallestDiff returns exactly the first extra line,
\* suggested[len(original)].
C14_FirstExtraLine ==
    OriginalIsProperPrefix =>
        /\ call = "findFirstDifferentLineIndex"
              => ret.index = Len(originalLines)
        /\ call = "findSmallestDiff"
              => /\ ret.firstDiffIndex = Len(originalLines)
                 /\ ret.lines = <<suggestedLines[Len(originalLines) + 1]>>

\* C14 witness: nothing in original, several lines in suggested, the first
\* of them returned
C14_Witness ==
    /\ call = "findSmallestDiff"
    /\ originalLines = <<>>
    /\ Len(suggestedLines) > 1
    /\ ret.lines = <<suggestedLines[1]>>

\* C15: findSmallestDiff returns no line whenever its call of
\* findFirstDifferentLineIndex returns NONE, which is the case for every
\* pair of identical arrays.
C15_EmptyWhenIdentical ==
    call = "findSmallestDiff" =>
        /\ SameContent => ret.firstDiffIndex = NONE
        /\ ret.firstDiffIndex = NONE => ret.lines = <<>>

\* C15 witness: identical non-empty arrays, nothing returned
C15_Witness ==
    /\ call = "findSmallestDiff"
    /\ SameContent
    /\ Len(suggestedLines) > 0
    /\ ret.firstDiffIndex = NONE
    /\ ret.lines = <<>>


\* the number of leading lines the two arrays share
CommonPrefixLength ==
    CHOOSE p \in 0..ShorterLength :
        /\ \A i \in 1..p : originalLines[i] = suggestedLines[i]
        /\ p = ShorterLength \/ originalLines[p + 1] # suggestedLines[p + 1]

\* the number of trailing lines the two arrays share beyond that prefix
CommonSuffixLength ==
    CHOOSE x \in 0..(ShorterLength - CommonPrefixLength) :
        /\ \A j \in 0..(x - 1) :
              originalLines[Len(originalLines) - j]
                  = suggestedLines[Len(suggestedLines) - j]
        /\ \/ x = ShorterLength - CommonPrefixLength
           \/ originalLines[Len(originalLines) - x]
                  # suggestedLines[Len(suggestedLines) - x]

\* C16: in extractMinimalChanges prefixLength is the length of the longest
\* common prefix, suffixLength the length of the longest common suffix that
\* does not overlap it, and their sum is at most the shorter length.
C16_PrefixAndSuffix ==
    call = "extractMinimalChanges" =>
        /\ ret.prefixLength = CommonPrefixLength
        /\ ret.suffixLength = CommonSuffixLength
        /\ ret.prefixLength + ret.suffixLength <= ShorterLength

\* C16 witness: a common prefix, and a suffix scan stopped by it although
\* the next line from the end matches as well
C16_Witness ==
    /\ call = "extractMinimalChanges"
    /\ ret.prefixLength > 0
    /\ ret.suffixLength > 0
    /\ ret.prefixLength + ret.suffixLength = ShorterLength
    /\ Len(originalLines) > Len(suggestedLines)
    /\ originalLines[Len(originalLines) - ret.suffixLength]
          = suggestedLines[Len(suggestedLines) - ret.suffixLength]


\* the changed core is empty on both sides of the common prefix and suffix
CoreEmpty ==
    /\ Len(originalLines) - CommonPrefixLength - CommonSuffixLength = 0
    /\ Len(suggestedLines) - CommonPrefixLength - CommonSuffixLength = 0

\* the changed core of suggested with the unchanged line before it, when the
\* common prefix has one, and the unchanged line after it, when the common
\* suffix has one
CoreWithContext ==
    LET p == CommonPrefixLength
        x == CommonSuffixLength
        n == Len(suggestedLines)
        before == IF p > 0 THEN <<suggestedLines[p]>> ELSE <<>>
        core == SubSeq(suggestedLines, p + 1, n - x)
        after == IF x > 0 THEN <<suggestedLines[n - x + 1]>> ELSE <<>>
    IN  before \o core \o after

\* C17: for arrays that are not identical extractMinimalChanges returns the
\* changed core of suggested, preceded by one unchanged line exactly when
\* the common prefix is not empty and followed by one unchanged line exactly
\* when the common suffix is not empty, joined by newlines.
C17_CoreWithContext ==
    (call = "extractMinimalChanges" /\ ~SameContent) =>
        /\ ret.lines = CoreWithContext
        /\ ret.text = Join(CoreWithContext, NL)
        /\ CommonPrefixLength > 0 =>
              suggestedLines[CommonPrefixLength]
                  = originalLines[CommonPrefixLength]
        /\ CommonSuffixLength > 0 =>
              suggestedLines[Len(suggestedLines) - CommonSuffixLength + 1]
                  = originalLines[Len(originalLines) - CommonSuffixLength + 1]

\* C17 witness: five lines, the middle one changed, three lines returned
C17_Witness ==
    /\ call = "extractMinimalChanges"
    /\ Len(originalLines) = 5
    /\ Len(suggestedLines) = 5
    /\ DifferingIndices = {2}
    /\ ret.lines = SubSeq(suggestedLines, 2, 4)

\* C18 as claimed: extractMinimalChanges returns the whole of suggested,
\* joined, exactly when the changed core is empty on both sides, which is
\* exactly when the arrays are identical.
C18_Original ==
    call = "extractMinimalChanges" =>
        /\ (ret.text = Join(suggestedLines, NL)) <=> CoreEmpty
        /\ CoreEmpty <=> SameContent

\* C18 amended: the changed core is empty on both sides exactly when the
\* arrays are identical, and then extractMinimalChanges returns the whole of
\* suggested, joined; for arrays that are not identical it returns the
\* whole of suggested only when the window of the changed core and its
\* context covers it (common prefix and common suffix of at most one line).
C18_WholeWhenIdentical ==
    call = "extractMinimalChanges" =>
        /\ CoreEmpty <=> SameContent
        /\ ret.whole <=> CoreEmpty
        /\ CoreEmpty => /\ ret.lines = suggestedLines
                        /\ ret.text = Join(suggestedLines, NL)
        /\ ~CoreEmpty =>
              (ret.text = Join(suggestedLines, NL)
                  <=> (CommonPrefixLength <= 1 /\ CommonSuffixLength <= 1))

\* C18 witness: identical arrays of more than 3 lines, all of them returned
C18_Witness ==
    /\ call = "extractMinimalChanges"
    /\ SameContent
    /\ Len(suggestedLines) > 3
    /\ ret.whole
    /\ ret.text = Join(suggestedLines, NL)


FirstDifference ==
    IF SameContent THEN NONE
    ELSE IF DifferingIndices # {} THEN LeastDiffering
    ELSE ShorterLength

\* C20: the third step of the chain never renders: findSmallestDiff returns
\* at most 3 lines, and when it returns none the first different line index
\* is NONE or len(suggested), so that the condition
\* 0 <= index < len(suggested) is false whenever the third step is reached.
C20_ThirdStepNeverRenders ==
    /\ \A i \in 1..Len(emittedBy) : emittedBy[i] # "firstDiff"
    /\ Len(steps) >= 2 =>
          /\ Len(diffLines) <= 3
          /\ diffLines = <<>> =>
                FirstDifference \in {NONE, Len(suggestedLines)}
    /\ pc = "firstDiff" =>
          ~(0 <= FirstDifference /\ FirstDifference < Len(suggestedLines))
    /\ Len(steps) >= 3 =>
          /\ firstDiffIndex = FirstDifference
          /\ firstDiffIndex \in {NONE, Len(suggestedLines)}
          /\ pc \in {"minimal", "done"}

\* C20 witness: the third step was reached with the index len(suggested),
\* suggested being a proper prefix of original, and the last resort rendered
C20_Witness ==
    /\ pc = "done"
    /\ steps = AllSteps
    /\ firstDiffIndex = Len(suggestedLines)
    /\ Len(suggestedLines) < Len(originalLines)
    /\ emittedBy = <<"minimal">>


\* suggested is original without its last lines
SuggestedIsProperPrefix ==
    /\ Len(suggestedLines) < Len(originalLines)
    /\ \A i \in 1..Len(suggestedLines) : originalLines[i] = suggestedLines[i]

\* C21: findSmallestDiff returns no line exactly when the arrays are
\* identical or suggested is a proper prefix of original; for every other
\* pair it returns between 1 and 3 lines.
C21_EmptyExactlyWhen ==
    call = "findSmallestDiff" =>
        /\ ret.lines = <<>> <=> (SameContent \/ SuggestedIsProperPrefix)
        /\ ~(SameContent \/ SuggestedIsProperPrefix) =>
              (1 <= Len(ret.lines) /\ Len(ret.lines) <= 3)

\* C21 witness: lines were deleted at the end and nothing is returned
C21_Witness ==
    /\ call = "findSmallestDiff"
    /\ SuggestedIsProperPrefix
    /\ Len(suggestedLines) > 0
    /\ ret.firstDiffIndex = Len(suggestedLines)
    /\ ret.lines = <<>>

\* C22: the last resort renders only when the arrays are identical or
\* suggested is a proper prefix of original; it renders the first
\* min(3, len(suggested)) lines of suggested in the first case and exactly
\* the last line of suggested in the second.
C22_LastResort ==
    "minimal" \in {steps[i] : i \in 1..Len(steps)} =>
        /\ pc = "done"
        /\ emittedBy = <<"minimal">>
        /\ originalLines = suggestedLines \/ SuggestedIsProperPrefix
        /\ originalLines = suggestedLines =>
              emittedLines =
                  SubSeq(suggestedLines, 1, Min(3, Len(suggestedLines)))
        /\ SuggestedIsProperPrefix =>
              emittedLines = <<suggestedLines[Len(suggestedLines)]>>

\* C22 witness: two lines of suggested, a third in original, the second
\* line of suggested rendered
C22_Witness ==
    /\ pc = "done"
    /\ emittedBy = <<"minimal">>
    /\ SuggestedIsProperPrefix
    /\ Len(suggestedLines) = 2
    /\ emittedLines = <<suggestedLines[2]>>

\* C23: the k-th line findSmallestDiff returns is suggested[start + k], and
\* it is a changed line: start + k is past the end of original or original
\* has another line there.
C23_OnlyChangedLines ==
    call = "findSmallestDiff" =>
        \A k \in 0..(Len(ret.lines) - 1) :
            LET i == ret.firstDiffIndex + k
            IN  /\ i >= 0
                /\ i < Len(suggestedLines)
                /\ ret.lines[k + 1] = suggestedLines[i + 1]
                /\ \/ i >= Len(originalLines)
                   \/ originalLines[i + 1] # suggestedLines[i + 1]

\* C23 witness: three changed lines returned, unchanged lines on both sides
C23_Witness ==
    /\ call = "findSmallestDiff"
    /\ Len(ret.lines) = 3
    /\ ret.firstDiffIndex = 1
    /\ DifferingIndices = {1, 2, 3}
    /\ Len(suggestedLines) = 5


----------------------------------------------------------------------------
(* The review scripts over the GitHub MCP tools: reviewPullRequest of      *)
(* src/pr-review-tool.js and reviewPRWithMCP of src/unnamed/part_000.      *)
(* An awaited call is one step that issues the request and one step that   *)
(* resumes the function when the request has settled.  global.mcp is      *)
(* taken to provide the tools.                                             *)

\* most files of a pull request
MaxFiles == 2

\* file.additions + file.deletions > 300
LargeFileThreshold == 300
\* file.patch.length > 1000
LargePatchThreshold == 1000

\* the variables of the suggestion extraction, at rest
DiffIdle ==
    /\ lineContent = <<>>
    /\ lineSuggestion = <<>>
    /\ key = <<>>
    /\ numKeys = 0
    /\ originalLines = <<>>
    /\ suggestedLines = <<>>
    /\ pc = "idle"
    /\ targetLineIndex = NONE
    /\ diffLines = <<>>
    /\ firstDiffIndex = NONE
    /\ steps = <<>>
    /\ emittedBy = <<>>
    /\ emittedLines = <<>>
    /\ emitted = <<>>
    /\ call = "none"
    /\ ret = NoRet
    /\ returned = [f \in DiffFunctions |-> NoRet]
    /\ recalled = FALSE

DiffUnchanged ==
    UNCHANGED <<lineContent, lineSuggestion, key, numKeys, originalLines,
                suggestedLines, pc, targetLineIndex, diffLines,
                firstDiffIndex, steps, emittedBy, emittedLines, emitted,
                call, ret, returned, recalled>>

\* String.prototype.endsWith
EndsWith(s, suffix) ==
    /\ Len(suffix) <= Len(s)
    /\ SubSeq(s, Len(s) - Len(suffix) + 1, Len(s)) = suffix

\* the four endsWith tests of the second check
IsScriptFile(filename) ==
    \/ EndsWith(filename, <<".", "j", "s">>)
    \/ EndsWith(filename, <<".", "j", "s", "x">>)
    \/ EndsWith(filename, <<".", "t", "s">>)
    \/ EndsWith(filename, <<".", "t", "s", "x">>)

\* mutant: the size check fires at the threshold
FileCommentsAtThreshold(file) ==
    (IF file.additions + file.deletions >= LargeFileThreshold
     THEN <<[path |-> file.filename, check |-> "many-changes"]>>
     ELSE <<>>)
    \o (IF /\ IsScriptFile(file.filename)
           /\ file.patch.present
           /\ file.patch.length > LargePatchThreshold
        THEN <<[path |-> file.filename, check |-> "significant-changes"]>>
        ELSE <<>>)

\* the body of for (const file of files): the comments pushed for one file
FileComments(file) ==
    (IF file.additions + file.deletions > LargeFileThreshold
     THEN <<[path |-> file.filename, check |-> "many-changes"]>>
     ELSE <<>>)
    \o (IF /\ IsScriptFile(file.filename)
           /\ file.patch.present
           /\ file.patch.length > LargePatchThreshold
        THEN <<[path |-> file.filename, check |-> "significant-changes"]>>
        ELSE <<>>)

\* for (const file of files): the comments array after the loop
RECURSIVE AnalyzeFiles(_)
AnalyzeFiles(fs) ==
    IF fs = <<>> THEN <<>>
    ELSE FileComments(Head(fs)) \o AnalyzeFiles(Tail(fs))

NoComment == [path |-> <<>>, check |-> "none"]

\* an API request, as issued
Request(op, event, comment) ==
    [op |-> op, event |-> event, comment |-> comment, status |-> "pending"]

\* the request awaited has settled
Settled(status) == [apiCalls EXCEPT ![Len(apiCalls)].status = status]

\* the awaited request resolves and the next request is issued
ResolveAndIssue(op, event, comment) ==
    apiCalls' = Append(Settled("ok"), Request(op, event, comment))

MCPPrograms == {"reviewPullRequest", "reviewPRWithMCP"}

FileNames ==
    {<<"a", ".", "j", "s">>, <<"a", ".", "t", "s", "x">>,
     <<"a", ".", "m", "d">>}

Patches ==
    {[present |-> FALSE, length |-> 0]}
    \cup {[present |-> TRUE, length |-> n] :
            n \in {LargePatchThreshold, LargePatchThreshold + 1}}

FileValues ==
    [filename : FileNames, additions : {LargeFileThreshold},
     deletions : {0, 1}, patch : Patches]

FileLists ==
    {[present |-> FALSE, list |-> <<>>]}
    \cup {[present |-> TRUE, list |-> l] : l \in BoundedSeq(FileValues, MaxFiles)}

InitReview ==
    /\ DiffIdle
    /\ program \in MCPPrograms
    /\ pr \in {[present |-> TRUE], [present |-> FALSE]}
    /\ files \in FileLists
    /\ diff = <<>>
    /\ stage = "start"
    /\ apiCalls = <<>>
    /\ comments = <<>>
    /\ cursor = 0

\* 1. Get PR details
StartReview ==
    /\ stage = "start"
    /\ apiCalls' = Append(apiCalls, Request("get_pull_request", "", NoComment))
    /\ stage' = "get_pull_request"
    /\ UNCHANGED <<program, pr, files, diff, comments, cursor>>
    /\ DiffUnchanged

\* if (!pr) throw (pr-review-tool.js) or pr.title (part_000), then
\* 2. Get changed files
AfterGetPullRequest ==
    /\ stage = "get_pull_request"
    /\ IF pr.present
       THEN /\ ResolveAndIssue("get_pull_request_files", "", NoComment)
            /\ stage' = "get_pull_request_files"
       ELSE /\ apiCalls' = Settled("ok")
            /\ stage' = IF program = "reviewPullRequest"
                        THEN "thrown" ELSE "caught"
    /\ UNCHANGED <<program, pr, files, diff, comments, cursor>>
    /\ DiffUnchanged

\* mutant: only a missing file list returns early
AfterGetFilesOnlyMissing ==
    /\ stage = "get_pull_request_files"
    /\ IF ~files.present
       THEN /\ apiCalls' = Settled("ok")
            /\ stage' = "returned"
       ELSE /\ ResolveAndIssue("create_pending_review", "", NoComment)
            /\ stage' = "create_pending_review"
    /\ UNCHANGED <<program, pr, files, diff, comments, cursor>>
    /\ DiffUnchanged

\* if (!files || files.length === 0) return, then 3. Create a pending review
AfterGetFiles ==
    /\ stage = "get_pull_request_files"
    /\ IF ~files.present \/ Len(files.list) = 0
       THEN /\ apiCalls' = Settled("ok")
            /\ stage' = "returned"
       ELSE /\ ResolveAndIssue("create_pending_review", "", NoComment)
            /\ stage' = "create_pending_review"
    /\ UNCHANGED <<program, pr, files, diff, comments, cursor>>
    /\ DiffUnchanged

\* mutant: the comments are added without await, then the review submitted
AfterCreatePendingDetached ==
    /\ stage = "create_pending_review"
    /\ LET found == AnalyzeFiles(files.list)
       IN  /\ comments' = found
           /\ cursor' = Len(found)
           /\ apiCalls' =
                 Settled("ok")
                 \o [i \in 1..Len(found) |->
                        Request("add_comment", "", found[i])]
                 \o <<Request("submit_review",
                              IF Len(found) > 0 THEN "COMMENT" ELSE "APPROVE",
                              NoComment)>>
           /\ stage' = "submit_review"
    /\ UNCHANGED <<program, pr, files, diff>>
    /\ DiffUnchanged

\* 4. Analyze files, then the first add-comment or the approving submit
AfterCreatePending ==
    /\ stage = "create_pending_review"
    /\ LET found == AnalyzeFiles(files.list)
       IN  /\ comments' = found
           /\ IF Len(found) > 0
              THEN /\ ResolveAndIssue("add_comment", "", found[1])
                   /\ cursor' = 1
                   /\ stage' = "add_comment"
              ELSE /\ ResolveAndIssue("submit_review", "APPROVE", NoComment)
                   /\ cursor' = 0
                   /\ stage' = "submit_review"
    /\ UNCHANGED <<program, pr, files, diff>>
    /\ DiffUnchanged

\* 5. for (const comment of comments) await add-comment, then 6. submit
AfterAddComment ==
    /\ stage = "add_comment"
    /\ IF cursor < Len(comments)
       THEN /\ ResolveAndIssue("add_comment", "", comments[cursor + 1])
            /\ cursor' = cursor + 1
            /\ stage' = "add_comment"
       ELSE /\ ResolveAndIssue("submit_review", "COMMENT", NoComment)
            /\ cursor' = cursor
            /\ stage' = "submit_review"
    /\ UNCHANGED <<program, pr, files, diff, comments>>
    /\ DiffUnchanged

\* the submit resolved: the function returns
AfterSubmit ==
    /\ stage = "submit_review"
    /\ apiCalls' = Settled("ok")
    /\ stage' = "returned"
    /\ UNCHANGED <<program, pr, files, diff, comments, cursor>>
    /\ DiffUnchanged

AwaitingStages ==
    {"get_pull_request", "get_pull_request_files", "create_pending_review",
     "add_comment", "submit_review"}

\* mutant: the catch block logs the error and returns
CallFailsSwallowed ==
    /\ stage \in AwaitingStages
    /\ apiCalls' = Settled("failed")
    /\ stage' = "caught"
    /\ UNCHANGED <<program, pr, files, diff, comments, cursor>>
    /\ DiffUnchanged

\* the awaited request rejects: catch (error) { console.error; throw error }
\* in pr-review-tool.js, console.error only in part_000
CallFails ==
    /\ stage \in AwaitingStages
    /\ apiCalls' = Settled("failed")
    /\ stage' = IF program = "reviewPullRequest" THEN "thrown" ELSE "caught"
    /\ UNCHANGED <<program, pr, files, diff, comments, cursor>>
    /\ DiffUnchanged

NextReview ==
    \/ StartReview
    \/ AfterGetPullRequest
    \/ AfterGetFiles
    \/ AfterCreatePending
    \/ AfterAddComment
    \/ AfterSubmit
    \/ CallFails

SpecReview == InitReview /\ [][NextReview]_vars


----------------------------------------------------------------------------
(* Properties of the MCP review scripts (SpecReview) *)

\* the operations of the requests issued so far, in order
IssuedOps == [i \in 1..Len(apiCalls) |-> apiCalls[i].op]

\* the indices of the requests of one operation
CallsOf(op) == {i \in 1..Len(apiCalls) : apiCalls[i].op = op}

SomeCallFailed == \E i \in 1..Len(apiCalls) : apiCalls[i].status = "failed"

\* get-PR, get-files, create, n add-comments, submit
FullReviewOrder(n) ==
    <<"get_pull_request", "get_pull_request_files", "create_pending_review">>
    \o [i \in 1..n |-> "add_comment"]
    \o <<"submit_review">>

IsPrefixOf(s, full) == Len(s) <= Len(full) /\ s = SubSeq(full, 1, Len(s))

HasChangedFiles == files.present /\ Len(files.list) > 0

\* the files whose additions + deletions exceed 300
ManyChangesFiles ==
    {i \in 1..Len(files.list) :
        files.list[i].additions + files.list[i].deletions > 300}

\* the .js/.jsx/.ts/.tsx files with a patch longer than 1000 characters
SignificantPatchFiles ==
    {i \in 1..Len(files.list) :
        /\ \E ext \in {<<".", "j", "s">>, <<".", "j", "s", "x">>,
                       <<".", "t", "s">>, <<".", "t", "s", "x">>} :
              EndsWith(files.list[i].filename, ext)
        /\ files.list[i].patch.present
        /\ files.list[i].patch.length > 1000}

CommentsOfCheck(check) ==
    {i \in 1..Len(comments) : comments[i].check = check}

\* C24: with changed files and no failing call the requests are get-PR,
\* get-files, one create-pending-review, one add-comment per generated
\* comment, one submit, in this order; a request is issued only when every
\* earlier one has settled, so no add-comment precedes the create or
\* follows the submit.
C24_CallOrder ==
    (HasChangedFiles /\ ~SomeCallFailed) =>
        /\ \A i \in 1..Len(apiCalls) :
              apiCalls[i].status = "pending" => i = Len(apiCalls)
        /\ Len(apiCalls) > 3 =>
              IsPrefixOf(IssuedOps, FullReviewOrder(Len(comments)))
        /\ Len(apiCalls) <= 3 => IsPrefixOf(IssuedOps, FullReviewOrder(0))
        /\ stage = "returned" =>
              /\ IssuedOps = FullReviewOrder(Len(comments))
              /\ \A i \in CallsOf("add_comment") :
                    apiCalls[i].comment = comments[i - 3]

\* C24 witness: three comments were added one after the other and the
\* review submitted
C24_Witness ==
    /\ stage = "returned"
    /\ Len(comments) = 3
    /\ ~SomeCallFailed
    /\ IssuedOps = <<"get_pull_request", "get_pull_request_files",
                     "create_pending_review", "add_comment", "add_comment",
                     "add_comment", "submit_review">>

\* C25: the review is submitted with APPROVE exactly when no comment was
\* generated and with COMMENT otherwise; a file gets a comment when
\* additions + deletions > 300 and another when it is a .js/.jsx/.ts/.tsx
\* file with a patch longer than 1000 characters; there is one add-comment
\* request per generated comment.
C25_EventAndComments ==
    \A s \in CallsOf("submit_review") :
        /\ Cardinality(CommentsOfCheck("many-changes")) =
              Cardinality(ManyChangesFiles)
        /\ Cardinality(CommentsOfCheck("significant-changes")) =
              Cardinality(SignificantPatchFiles)
        /\ Len(comments) =
              Cardinality(ManyChangesFiles) + Cardinality(SignificantPatchFiles)
        /\ apiCalls[s].event = "APPROVE" <=> Len(comments) = 0
        /\ apiCalls[s].event = "COMMENT" <=> Len(comments) > 0
        /\ Cardinality(CallsOf("add_comment")) = Len(comments)

\* C25 witness: a file of exactly 300 changed lines and a patch of exactly
\* 1000 characters beside a file over both thresholds; two comments
C25_Witness ==
    /\ stage = "returned"
    /\ Len(files.list) = 2
    /\ files.list[1].additions + files.list[1].deletions = 300
    /\ files.list[1].patch.present
    /\ files.list[1].patch.length = 1000
    /\ EndsWith(files.list[1].filename, <<".", "j", "s">>)
    /\ ManyChangesFiles = {2}
    /\ SignificantPatchFiles = {2}
    /\ Len(comments) = 2
    /\ \E s \in CallsOf("submit_review") : apiCalls[s].event = "COMMENT"

\* C27: in reviewPullRequest of pr-review-tool.js a failing call is the
\* last request made and the error reaches the caller; a failure after the
\* create-pending-review leaves the review without a submit.
C27_FailureStops ==
    program = "reviewPullRequest" =>
        \A i \in 1..Len(apiCalls) :
            apiCalls[i].status = "failed" =>
                /\ i = Len(apiCalls)
                /\ stage = "thrown"
                /\ \A s \in CallsOf("submit_review") :
                      s = i /\ apiCalls[s].status # "ok"

\* C27 witness: the second add-comment failed after the review was created
C27_Witness ==
    /\ program = "reviewPullRequest"
    /\ stage = "thrown"
    /\ Len(apiCalls) = 5
    /\ apiCalls[3].op = "create_pending_review"
    /\ apiCalls[3].status = "ok"
    /\ apiCalls[5].op = "add_comment"
    /\ apiCalls[5].status = "failed"
    /\ Len(comments) = 3

\* C28: when the file list is missing or empty the function returns
\* normally and no review is created, no comment added, nothing submitted.
C28_NoFilesNoReview ==
    ~HasChangedFiles =>
        /\ CallsOf("create_pending_review") = {}
        /\ CallsOf("add_comment") = {}
        /\ CallsOf("submit_review") = {}
        /\ (Len(apiCalls) = 2 /\ apiCalls[2].status = "ok") =>
              stage = "returned"

\* C28 witness: the file list came back empty and the function returned
C28_Witness ==
    /\ files.present
    /\ files.list = <<>>
    /\ stage = "returned"
    /\ IssuedOps = <<"get_pull_request", "get_pull_request_files">>
    /\ apiCalls[2].status = "ok"


----------------------------------------------------------------------------
(* addDirectPRComments of the direct PR review script                      *)
(* (src/unnamed/part_002).  A text is a sequence of tokens, the diff the   *)
(* sequence of its lines.                                                  *)

\* most lines of the diff of a pull request
MaxDiffLines == 2

\* codePatterns: the pattern, and whether codeExamples is an array
CodePatterns ==
    <<[pattern |-> "confirm(", examplesIsArray |-> TRUE],
      [pattern |-> "console.log(", examplesIsArray |-> FALSE],
      [pattern |-> "TODO|FIXME", examplesIsArray |-> FALSE],
      [pattern |-> "document.getElementById", examplesIsArray |-> FALSE],
      [pattern |-> "querySelector.*(.*)", examplesIsArray |-> FALSE]>>

\* isRegex ? pattern.pattern.test(line) : line.includes(pattern.pattern)
PatternMatches(p, line) ==
    CASE p = 1 -> Includes(line, <<"confirm", "(">>)
      [] p = 2 -> Includes(line, <<"console.log", "(">>)
      [] p = 3 -> Includes(line, <<"TODO">>) \/ Includes(line, <<"FIXME">>)
      [] p = 4 -> Includes(line, <<"document.getElementById">>)
      [] OTHER -> \E i, j, k \in 1..Len(line) :
                     /\ i < j /\ j < k
                     /\ line[i] = "querySelector"
                     /\ line[j] = "("
                     /\ line[k] = ")"

\* formatComment: codeExamples.forEach exists only on an array
FormatCommentThrows(p) == ~CodePatterns[p].examplesIsArray

\* a comment pushed by the pattern scan: the string formatComment returned
StringComment(filename, check) ==
    [path |-> filename, check |-> check, isString |-> TRUE]

\* the requests that have not settled
Unsettled(calls) == {i \in 1..Len(calls) : calls[i].status = "pending"}

\* an add-comment or submit request, with the number of requests in flight
DirectRequest(op, event, comment, calls) ==
    [op |-> op, event |-> event, comment |-> comment, status |-> "pending",
     unsettled |-> Cardinality(Unsettled(calls))]

RECURSIVE ScanPatterns(_, _, _, _, _)
\* for (const pattern of codePatterns) diffLines.forEach(...): the calls made
\* without await and the comments pushed, until formatComment throws
ScanPatterns(filename, p, idx, calls, cmts) ==
    IF p > Len(CodePatterns)
    THEN [thrown |-> FALSE, calls |-> calls, comments |-> cmts]
    ELSE IF idx > Len(diff)
    THEN ScanPatterns(filename, p + 1, 1, calls, cmts)
    ELSE IF ~PatternMatches(p, diff[idx])
    THEN ScanPatterns(filename, p, idx + 1, calls, cmts)
    ELSE IF FormatCommentThrows(p)
    THEN [thrown |-> TRUE, calls |-> calls, comments |-> cmts]
    ELSE LET comment == StringComment(filename, CodePatterns[p].pattern)
         IN  ScanPatterns(filename, p, idx + 1,
                          Append(calls,
                                 DirectRequest("add_comment", "", comment,
                                               calls)),
                          Append(cmts, comment))

\* diff.includes('addEventListener') && diff.includes('cancel')
CancelHandlerInDiff ==
    /\ \E i \in 1..Len(diff) : Includes(diff[i], <<"addEventListener">>)
    /\ \E i \in 1..Len(diff) : Includes(diff[i], <<"cancel">>)

\* a condition of the second loop holds: addFileComment is called
FileCheckApplies(file) ==
    \/ file.additions + file.deletions > LargeFileThreshold
    \/ /\ \/ EndsWith(file.filename, <<".", "j", "s">>)
          \/ EndsWith(file.filename, <<".", "j", "s", "x">>)
       /\ file.patch.present
       /\ \/ Includes(file.patch.text, <<"console.log">>)
          \/ Includes(file.patch.text, <<"TODO">>)
          \/ Includes(file.patch.text, <<"FIXME">>)
          \/ \E w \in {"password", "secret", "token", "key"} :
                Includes(file.patch.text, <<w>>)
    \/ EndsWith(file.filename, <<".", "j", "s", "o", "n">>)

\* process.exit(1) of the catch block
Exited(calls, cmts) ==
    [stage |-> "exited", apiCalls |-> calls, comments |-> cmts, cursor |-> 0]

\* the second loop, the summary and the submit.  addFileComment and
\* COMMENT_TYPES are not exported by pr-review-tool.js, so the first check
\* that applies throws; comment.body.split throws on a string comment.
FinishReview(calls, cmts) ==
    IF \E i \in 1..Len(files.list) : FileCheckApplies(files.list[i])
    THEN Exited(calls, cmts)
    ELSE IF \E i \in 1..Len(cmts) : cmts[i].isString
    THEN Exited(calls, cmts)
    ELSE [stage |-> "submit_review",
          apiCalls |->
             Append(calls,
                    DirectRequest("submit_review",
                                  IF Len(cmts) > 0 THEN "COMMENT"
                                  ELSE "APPROVE",
                                  NoComment, calls)),
          comments |-> cmts, cursor |-> 0]

RECURSIVE ScanFrom(_, _, _)
\* the first loop from file i on, up to the next awaited call
ScanFrom(i, calls, cmts) ==
    IF i > Len(files.list) THEN FinishReview(calls, cmts)
    ELSE IF ~EndsWith(files.list[i].filename, <<".", "j", "s">>)
    THEN ScanFrom(i + 1, calls, cmts)
    ELSE LET scan == ScanPatterns(files.list[i].filename, 1, 1, calls, cmts)
         IN  IF scan.thrown THEN Exited(scan.calls, scan.comments)
             ELSE IF CancelHandlerInDiff
             THEN [stage |-> "add_comment",
                   apiCalls |->
                      Append(scan.calls,
                             DirectRequest("add_comment", "",
                                 StringComment(files.list[i].filename,
                                               "cancel"),
                                 scan.calls)),
                   comments |-> scan.comments, cursor |-> i]
             ELSE ScanFrom(i + 1, scan.calls, scan.comments)

\* the function runs on to its next awaited call, or ends
RunsTo(next) ==
    /\ stage' = next.stage
    /\ apiCalls' = next.apiCalls
    /\ comments' = next.comments
    /\ cursor' = next.cursor

DirectFileNames == {<<"a", ".", "j", "s">>, <<"a", ".", "j", "s", "o", "n">>}

DirectPatches ==
    {[present |-> FALSE, text |-> <<>>], [present |-> TRUE, text |-> <<"TODO">>]}

DirectFileValues ==
    [filename : DirectFileNames, additions : {LargeFileThreshold},
     deletions : {0, 1}, patch : DirectPatches]

DirectDiffLineValues ==
    {<<"x">>, <<"confirm", "(">>, <<"console.log", "(">>,
     <<"addEventListener", "cancel">>}

InitDirect ==
    /\ DiffIdle
    /\ program = "addDirectPRComments"
    /\ pr = [present |-> TRUE]
    /\ files \in {[present |-> TRUE, list |-> l] :
                    l \in BoundedSeq(DirectFileValues, MaxFiles)}
    /\ diff \in BoundedSeq(DirectDiffLineValues, MaxDiffLines) \ {<<>>}
    /\ stage = "start"
    /\ apiCalls = <<>>
    /\ comments = <<>>
    /\ cursor = 0

\* 1. Get PR details
DirectStart ==
    /\ stage = "start"
    /\ apiCalls' = Append(apiCalls,
                          DirectRequest("get_pull_request", "", NoComment,
                                        apiCalls))
    /\ stage' = "get_pull_request"
    /\ UNCHANGED <<program, pr, files, diff, comments, cursor>>
    /\ DiffUnchanged

\* 2. Get PR files
DirectAfterGetPullRequest ==
    /\ stage = "get_pull_request"
    /\ apiCalls' = Append(Settled("ok"),
                          DirectRequest("get_pull_request_files", "",
                                        NoComment, <<>>))
    /\ stage' = "get_pull_request_files"
    /\ UNCHANGED <<program, pr, files, diff, comments, cursor>>
    /\ DiffUnchanged

\* 3. Get PR diff
DirectAfterGetFiles ==
    /\ stage = "get_pull_request_files"
    /\ apiCalls' = Append(Settled("ok"),
                          DirectRequest("get_pull_request_diff", "",
                                        NoComment, <<>>))
    /\ stage' = "get_pull_request_diff"
    /\ UNCHANGED <<program, pr, files, diff, comments, cursor>>
    /\ DiffUnchanged

\* 4. Create a pending review
DirectAfterGetDiff ==
    /\ stage = "get_pull_request_diff"
    /\ apiCalls' = Append(Settled("ok"),
                          DirectRequest("create_pending_review", "",
                                        NoComment, <<>>))
    /\ stage' = "create_pending_review"
    /\ UNCHANGED <<program, pr, files, diff, comments, cursor>>
    /\ DiffUnchanged

\* 6. Analyze code changes and generate comments
DirectAfterCreatePending ==
    /\ stage = "create_pending_review"
    /\ RunsTo(ScanFrom(1, Settled("ok"), <<>>))
    /\ UNCHANGED <<program, pr, files, diff>>
    /\ DiffUnchanged

\* comments.push(comment2) after the awaited add-comment of "Issue 2"
DirectAfterCancelComment ==
    /\ stage = "add_comment"
    /\ RunsTo(ScanFrom(cursor + 1, Settled("ok"),
                       Append(comments, apiCalls[Len(apiCalls)].comment)))
    /\ UNCHANGED <<program, pr, files, diff>>
    /\ DiffUnchanged

\* 'PR review submitted successfully!'
DirectAfterSubmit ==
    /\ stage = "submit_review"
    /\ apiCalls' = Settled("ok")
    /\ stage' = "returned"
    /\ UNCHANGED <<program, pr, files, diff, comments, cursor>>
    /\ DiffUnchanged

\* the awaited request rejects: catch (error) { process.exit(1) }
DirectCallFails ==
    /\ stage \in AwaitingStages \cup {"get_pull_request_diff"}
    /\ apiCalls' = Settled("failed")
    /\ stage' = "exited"
    /\ UNCHANGED <<program, pr, files, diff, comments, cursor>>
    /\ DiffUnchanged

\* the requests made without await, the awaited one (the last) set aside
Detached ==
    IF stage \in AwaitingStages \cup {"get_pull_request_diff"}
    THEN Unsettled(apiCalls) \ {Len(apiCalls)}
    ELSE Unsettled(apiCalls)

\* a request made without await settles while the process is alive, the
\* oldest one first; a rejection is unhandled and may or may not end the
\* process
DetachedSettles ==
    /\ stage \notin {"exited"}
    /\ Detached # {}
    /\ LET i == CHOOSE j \in Detached : \A k \in Detached : j <= k
       IN  \E outcome \in {"ok", "failed"} :
              /\ apiCalls' = [apiCalls EXCEPT ![i].status = outcome]
              /\ \/ stage' = stage
                 \/ outcome = "failed" /\ stage' = "exited"
    /\ UNCHANGED <<program, pr, files, diff, comments, cursor>>
    /\ DiffUnchanged

NextDirect ==
    \/ DirectStart
    \/ DirectAfterGetPullRequest
    \/ DirectAfterGetFiles
    \/ DirectAfterGetDiff
    \/ DirectAfterCreatePending
    \/ DirectAfterCancelComment
    \/ DirectAfterSubmit
    \/ DirectCallFails
    \/ DetachedSettles

SpecDirect == InitDirect /\ [][NextDirect]_vars


----------------------------------------------------------------------------
(* Properties of addDirectPRComments (SpecDirect) *)

\* C26: when no API call fails, a finished run of addDirectPRComments has
\* submitted the pending review exactly once, with COMMENT when a comment
\* was generated and APPROVE when none was, and no add-comment request was
\* in flight when the submit was issued.
C26_SubmitsOnce ==
    (program = "addDirectPRComments" /\ stage \in {"returned", "exited"}
       /\ ~SomeCallFailed) =>
        /\ Cardinality(CallsOf("submit_review")) = 1
        /\ \A s \in CallsOf("submit_review") :
              /\ apiCalls[s].event =
                    IF Len(comments) > 0 THEN "COMMENT" ELSE "APPROVE"
              /\ apiCalls[s].unsettled = 0


----------------------------------------------------------------------------
(* reviewPullRequest of the Octokit review script (src/unnamed/part_003)   *)

\* an issue comment that is not one of the review comments
Notice(purpose) == [path |-> <<>>, check |-> purpose]

\* the analysis loop and the createReview call of the taken branch, after
\* the awaited request resolved
BeginsReview ==
    /\ comments' = AnalyzeFiles(files.list)
    /\ ResolveAndIssue("create_review", "", NoComment)
    /\ stage' = "create_review"

InitOctokit ==
    /\ DiffIdle
    /\ program = "octokit-review"
    /\ pr \in {[present |-> TRUE, templateComplete |-> c] : c \in BOOLEAN}
    /\ files \in FileLists
    /\ diff = <<>>
    /\ stage = "start"
    /\ apiCalls = <<>>
    /\ comments = <<>>
    /\ cursor = 0

\* 1. Get PR details
OctokitStart ==
    /\ stage = "start"
    /\ apiCalls' = Append(apiCalls, Request("pulls_get", "", NoComment))
    /\ stage' = "pulls_get"
    /\ UNCHANGED <<program, pr, files, diff, comments, cursor>>
    /\ DiffUnchanged

\* 2. Get changed files
OctokitAfterGet ==
    /\ stage = "pulls_get"
    /\ ResolveAndIssue("pulls_listFiles", "", NoComment)
    /\ stage' = "pulls_listFiles"
    /\ UNCHANGED <<program, pr, files, diff, comments, cursor>>
    /\ DiffUnchanged

\* the early return, the template check and its comment, or the analysis
OctokitAfterListFiles ==
    /\ stage = "pulls_listFiles"
    /\ IF ~files.present \/ Len(files.list) = 0
       THEN /\ apiCalls' = Settled("ok")
            /\ stage' = "returned"
            /\ UNCHANGED comments
       ELSE IF ~pr.templateComplete
       THEN /\ ResolveAndIssue("issue_comment", "", Notice("template"))
            /\ stage' = "template_comment"
            /\ UNCHANGED comments
       ELSE BeginsReview
    /\ UNCHANGED <<program, pr, files, diff, cursor>>
    /\ DiffUnchanged

\* 'Added comment about missing template items', then the analysis
OctokitAfterTemplateComment ==
    /\ stage = "template_comment"
    /\ BeginsReview
    /\ UNCHANGED <<program, pr, files, diff, cursor>>
    /\ DiffUnchanged

\* submitReview with the comments, or the approving submitReview
OctokitAfterCreateReview ==
    /\ stage = "create_review"
    /\ ResolveAndIssue("submit_review",
                       IF Len(comments) > 0 THEN "COMMENT" ELSE "APPROVE",
                       NoComment)
    /\ stage' = "submit_review"
    /\ UNCHANGED <<program, pr, files, diff, comments, cursor>>
    /\ DiffUnchanged

OctokitAfterSubmitReview ==
    /\ stage = "submit_review"
    /\ apiCalls' = Settled("ok")
    /\ stage' = "returned"
    /\ UNCHANGED <<program, pr, files, diff, comments, cursor>>
    /\ DiffUnchanged

\* catch (reviewError): the first individual comment;
\* catch (approveError): the comment that stands for the approval
OctokitReviewFails ==
    /\ stage \in {"create_review", "submit_review"}
    /\ IF Len(comments) > 0
       THEN /\ apiCalls' = Append(Settled("failed"),
                                  Request("issue_comment", "", comments[1]))
            /\ cursor' = 1
            /\ stage' = "individual_comment"
       ELSE /\ apiCalls' = Append(Settled("failed"),
                                  Request("issue_comment", "",
                                          Notice("approval")))
            /\ cursor' = 0
            /\ stage' = "approval_comment"
    /\ UNCHANGED <<program, pr, files, diff, comments>>
    /\ DiffUnchanged

\* mutant: a failing individual comment reaches the outer catch
OctokitAfterIndividualCommentStrict ==
    /\ stage = "individual_comment"
    /\ \E outcome \in {"ok", "failed"} :
          IF outcome = "failed"
          THEN /\ apiCalls' = Append(Settled("failed"),
                                     Request("issue_comment", "",
                                             Notice("error")))
               /\ cursor' = cursor
               /\ stage' = "error_comment"
          ELSE IF cursor < Len(comments)
          THEN /\ apiCalls' = Append(Settled("ok"),
                                     Request("issue_comment", "",
                                             comments[cursor + 1]))
               /\ cursor' = cursor + 1
               /\ stage' = "individual_comment"
          ELSE /\ apiCalls' = Settled("ok")
               /\ cursor' = cursor
               /\ stage' = "returned"
    /\ UNCHANGED <<program, pr, files, diff, comments>>
    /\ DiffUnchanged

\* for (const comment of comments) try { await createComment } catch { log }
OctokitAfterIndividualComment ==
    /\ stage = "individual_comment"
    /\ \E outcome \in {"ok", "failed"} :
          IF cursor < Len(comments)
          THEN /\ apiCalls' = Append(Settled(outcome),
                                     Request("issue_comment", "",
                                             comments[cursor + 1]))
               /\ cursor' = cursor + 1
               /\ stage' = "individual_comment"
          ELSE /\ apiCalls' = Settled(outcome)
               /\ cursor' = cursor
               /\ stage' = "returned"
    /\ UNCHANGED <<program, pr, files, diff, comments>>
    /\ DiffUnchanged

OctokitAfterApprovalComment ==
    /\ stage = "approval_comment"
    /\ apiCalls' = Settled("ok")
    /\ stage' = "returned"
    /\ UNCHANGED <<program, pr, files, diff, comments, cursor>>
    /\ DiffUnchanged

\* outer catch (error): the comment about the error is attempted
OctokitCallFails ==
    /\ stage \in {"pulls_get", "pulls_listFiles", "template_comment",
                  "approval_comment"}
    /\ apiCalls' = Append(Settled("failed"),
                          Request("issue_comment", "", Notice("error")))
    /\ stage' = "error_comment"
    /\ UNCHANGED <<program, pr, files, diff, comments, cursor>>
    /\ DiffUnchanged

\* process.exit(1), whether or not the error comment was added
OctokitAfterErrorComment ==
    /\ stage = "error_comment"
    /\ \E outcome \in {"ok", "failed"} : apiCalls' = Settled(outcome)
    /\ stage' = "exited"
    /\ UNCHANGED <<program, pr, files, diff, comments, cursor>>
    /\ DiffUnchanged

NextOctokit ==
    \/ OctokitStart
    \/ OctokitAfterGet
    \/ OctokitAfterListFiles
    \/ OctokitAfterTemplateComment
    \/ OctokitAfterCreateReview
    \/ OctokitAfterSubmitReview
    \/ OctokitReviewFails
    \/ OctokitAfterIndividualComment
    \/ OctokitAfterApprovalComment
    \/ OctokitCallFails
    \/ OctokitAfterErrorComment

SpecOctokit == InitOctokit /\ [][NextOctokit]_vars

----------------------------------------------------------------------------
(* Properties of the Octokit review script (SpecOctokit) *)

\* the createReview or submitReview requests that failed
FailedReviewCalls ==
    {i \in 1..Len(apiCalls) :
        /\ apiCalls[i].op \in {"create_review", "submit_review"}
        /\ apiCalls[i].status = "failed"}

\* C29: when creating or submitting the review with comments fails, the
\* generated comments are attempted as individual issue comments in their
\* order, the attempts go on after one of them failed, all of them have
\* been attempted when the script ends, and the script does not exit with
\* failure.
C29_IndividualFallback ==
    \A f \in FailedReviewCalls :
        Len(comments) > 0 =>
            /\ stage \in {"individual_comment", "returned"}
            /\ \A j \in (f + 1)..Len(apiCalls) :
                  /\ apiCalls[j].op = "issue_comment"
                  /\ j - f <= Len(comments)
                  /\ apiCalls[j].comment = comments[j - f]
            /\ stage = "individual_comment" =>
                  apiCalls[Len(apiCalls)].status = "pending"
            /\ stage = "returned" => Len(apiCalls) - f = Len(comments)

\* C29 witness: the submit failed, the first of three individual comments
\* failed, the other two were attempted and the script ended normally
C29_Witness ==
    /\ stage = "returned"
    /\ Len(comments) = 3
    /\ \E f \in FailedReviewCalls :
          /\ apiCalls[f].op = "submit_review"
          /\ Len(apiCalls) = f + 3
          /\ apiCalls[f + 1].status = "failed"
          /\ apiCalls[f + 2].status = "ok"
          /\ apiCalls[f + 3].status = "ok"

====
